---- MODULE Spec2Model ----
(***************************************************************************)
(* Model of the cellular-automata engine (src/src/automata.rs) and of the  *)
(* calls its caller makes on it (src/src/main.rs).                         *)
(*                                                                         *)
(* A World is the record [width, height, paused, cells]; cells is the      *)
(* Vec<Cell>, a function over 0 .. len-1 (Rust's indices), each Cell the   *)
(* record [index, position, state].                                        *)
(***************************************************************************)
EXTENDS Integers, FiniteSets, Sequences, TLC

\* ------------------------------------------------------------------ bounds
\* The largest number of cells of a world of specification Spec.
MaxCells == 6
\* The largest number of cells of a world of specification SpecPar.
MaxParCells == 5
\* The largest width and the largest height of a world of specification SpecPos.
MaxSide == 4
\* The largest number of cells of a world of specification SpecDraw.
MaxDrawCells == 3
\* The width of the one-row world of specification SpecLoop (main's world is
\* WIDTH x HEIGHT = 150 x 100).
LoopWidth == 2
\* The count of updates since the last draw stops at this number.
MaxUpdatesCounted == 2

\* ------------------------------------------------------------------ values
CellState == {"IMMUTABLE", "ALIVE", "DEAD"}

\* Option<usize>: None, or Some(value).
None == [is_some |-> FALSE, value |-> 0]

Some(v) == [is_some |-> TRUE, value |-> v]

\* Option::unwrap_or
unwrap_or(o, default) == IF o.is_some THEN o.value ELSE default

\* Option::filter with the closure |&v| v < bound
filter_lt(o, bound) == IF o.is_some /\ o.value < bound THEN o ELSE None

VARIABLES
    world,      \* the World the caller holds
    prev,       \* the World as it was before the last call
    last,       \* the last call: its name and its arguments
    pc,         \* where World::update stands: "idle" or "map" (par_iter running)
    new_state,  \* the Vec<Cell> under collection in World::update
    cursor,     \* a Position being stepped
    step,       \* the last Position step: its name and the Position it was given
    neighbours, \* the [usize; 8] neighbours_indexes returned last
    conv,       \* the last index/Position conversion: its arguments and results
    frame,      \* the frame buffer given to World::draw last, as draw left it
    outcome,    \* how the last World::draw ended: "ok" or "panic"
    sched,      \* the event loop: what winit delivers next
    event       \* the event the closure of event_loop.run handled last

vars == <<world, prev, last, pc, new_state, cursor, step,
          neighbours, conv, frame, outcome, sched, event>>

\* The variables of the conversions, of draw and of the event loop.
extra == <<neighbours, conv, frame, outcome, sched, event>>

\* ---------------------------------------------------------------- Position
usize_checked_sub(a, b) == IF a >= b THEN Some(a - b) ELSE None

\* x + 1 cannot exceed usize::MAX here: x < width <= usize::MAX.
usize_checked_add(a, b) == Some(a + b)

from_index(index, width) == [x |-> index % width, y |-> index \div width]

\* to_index with x and y taken for each other.
to_index_columnMajor(self, width) == self.x * width + self.y

to_index(self, width) == self.y * width + self.x

\* left wrapping to width for width - 1.
left_wrapToWidth(self, width) ==
    LET x == unwrap_or(usize_checked_sub(self.x, 1), width)
    IN  [x |-> x, y |-> self.y]

left(self, width) ==
    LET x == unwrap_or(usize_checked_sub(self.x, 1), width - 1)
    IN  [x |-> x, y |-> self.y]

\* right with the wrap one column late: v <= width for v < width.
right_lateWrap(self, width) ==
    LET v == unwrap_or(usize_checked_add(self.x, 1), 0)
        x == IF v <= width THEN v ELSE 0
    IN  [x |-> x, y |-> self.y]

right(self, width) ==
    LET x == unwrap_or(filter_lt(usize_checked_add(self.x, 1), width), 0)
    IN  [x |-> x, y |-> self.y]

\* top saturating at row 0 for wrapping to the last row.
top_saturating(self, height) ==
    LET y == unwrap_or(usize_checked_sub(self.y, 1), 0)
    IN  [x |-> self.x, y |-> y]

top(self, height) ==
    LET y == unwrap_or(usize_checked_sub(self.y, 1), height - 1)
    IN  [x |-> self.x, y |-> y]

bottom(self, height) ==
    LET y == unwrap_or(filter_lt(usize_checked_add(self.y, 1), height), 0)
    IN  [x |-> self.x, y |-> y]

\* ------------------------------------------------------------------- World
\* new with the range one index short.
new_oneCellShort(width, height) ==
    LET cells == [index \in 0 .. (width * height - 2) |->
                     [index    |-> index,
                      position |-> from_index(index, width),
                      state    |-> "DEAD"]]
    IN  [width |-> width, height |-> height, cells |-> cells, paused |-> TRUE]

\* new with the world running from the start.
new_unpaused(width, height) ==
    LET cells == [index \in 0 .. (width * height - 1) |->
                     [index    |-> index,
                      position |-> from_index(index, width),
                      state    |-> "DEAD"]]
    IN  [width |-> width, height |-> height, cells |-> cells, paused |-> FALSE]

new(width, height) ==
    LET cells == [index \in 0 .. (width * height - 1) |->
                     [index    |-> index,
                      position |-> from_index(index, width),
                      state    |-> "DEAD"]]
    IN  [width |-> width, height |-> height, cells |-> cells, paused |-> TRUE]

\* self.cells.len()
len(cells) == Cardinality(DOMAIN cells)

\* set_cell_state with an index past the end clamped to the last cell.
set_cell_state_clamped(self, index, state) ==
    LET i == IF index \in DOMAIN self.cells THEN index ELSE len(self.cells) - 1
    IN  IF i \in DOMAIN self.cells
        THEN [self EXCEPT !.cells[i].state = state]
        ELSE self

\* set_cell_state that edits only a paused world.
set_cell_state_whenPaused(self, index, state) ==
    IF index \in DOMAIN self.cells /\ self.paused
    THEN [self EXCEPT !.cells[index].state = state]
    ELSE self

set_cell_state(self, index, state) ==
    IF index \in DOMAIN self.cells
    THEN [self EXCEPT !.cells[index].state = state]
    ELSE self

\* neighbours_indexes with the row below listed before the row above.
neighbours_indexes_bottomFirst(self, i) ==
    LET width  == self.width
        height == self.height
        cell   == self.cells[i]
    IN  << to_index(left(bottom(cell.position, height), width), width),
           to_index(bottom(cell.position, height), width),
           to_index(right(bottom(cell.position, height), width), width),
           to_index(left(cell.position, width), width),
           to_index(right(cell.position, width), width),
           to_index(left(top(cell.position, height), width), width),
           to_index(top(cell.position, height), width),
           to_index(right(top(cell.position, height), width), width) >>

neighbours_indexes(self, i) ==
    LET width  == self.width
        height == self.height
        cell   == self.cells[i]
    IN  << to_index(left(top(cell.position, height), width), width),
           to_index(top(cell.position, height), width),
           to_index(right(top(cell.position, height), width), width),
           to_index(left(cell.position, width), width),
           to_index(right(cell.position, width), width),
           to_index(left(bottom(cell.position, height), width), width),
           to_index(bottom(cell.position, height), width),
           to_index(right(bottom(cell.position, height), width), width) >>

\* alive_neighbours with the cell itself counted among its neighbours.
alive_neighbours_countingSelf(self, cell) ==
    LET nbrs == neighbours_indexes(self, cell.index)
    IN  Cardinality({k \in 1 .. 8 : self.cells[nbrs[k]].state = "ALIVE"})
        + (IF cell.state = "ALIVE" THEN 1 ELSE 0)

\* The map-filter-count over the 8 neighbour indices, read from self.cells.
alive_neighbours(self, cell) ==
    LET nbrs == neighbours_indexes(self, cell.index)
    IN  Cardinality({k \in 1 .. 8 : self.cells[nbrs[k]].state = "ALIVE"})

\* rule with birth on 2 alive neighbours as well as on 3.
rule_birthOnTwo(state, n) ==
    IF n = 2 \/ n = 3 THEN "ALIVE" ELSE "DEAD"

\* Conway's rule on the number of alive neighbours.
rule(state, n) ==
    IF n = 2 THEN state
    ELSE IF n = 3 THEN "ALIVE"
    ELSE "DEAD"

\* update_cell without the IMMUTABLE arm of the match.
update_cell_noImmutableArm(self, cell) ==
    [index    |-> cell.index,
     position |-> cell.position,
     state    |-> rule(cell.state, alive_neighbours(self, cell))]

\* update_cell rebuilding the position with the height for the width.
update_cell_positionByHeight(self, cell) ==
    IF cell.state = "IMMUTABLE"
    THEN cell
    ELSE [index    |-> cell.index,
          position |-> from_index(cell.index, self.height),
          state    |-> rule(cell.state, alive_neighbours(self, cell))]

\* The closure World::update maps over the cells.
update_cell(self, cell) ==
    IF cell.state = "IMMUTABLE"
    THEN cell
    ELSE [index    |-> cell.index,
          position |-> cell.position,
          state    |-> rule(cell.state, alive_neighbours(self, cell))]

\* update without the early return on paused.
update_ignoringPaused(self) ==
    [self EXCEPT !.cells = [i \in DOMAIN self.cells |-> update_cell(self, self.cells[i])]]

update(self) ==
    IF self.paused
    THEN self
    ELSE [self EXCEPT !.cells = [i \in DOMAIN self.cells |-> update_cell(self, self.cells[i])]]

\* The colour of a state, as the 4 bytes R, G, B, A.
rgba_aliveAsDead(state) ==
    IF state = "IMMUTABLE" THEN <<255, 0, 77, 255>>
    ELSE <<248, 248, 248, 248>>

rgba(state) ==
    IF state = "IMMUTABLE" THEN <<255, 0, 77, 255>>
    ELSE IF state = "ALIVE" THEN <<30, 30, 30, 255>>
    ELSE <<248, 248, 248, 248>>

\* World::draw on the buffer buf, a function over 0 .. len-1 of bytes.
\* chunks_exact_mut(4) yields len / 4 whole pixels and leaves the remainder
\* of the buffer alone; self.cells[i] panics at the first pixel past the last
\* cell, after the pixels before it were written.
draw(self, buf) ==
    LET chunks  == len(buf) \div 4
        written == IF chunks <= len(self.cells) THEN chunks ELSE len(self.cells)
    IN  [frame   |-> [b \in DOMAIN buf |->
                        IF b \div 4 < written
                        THEN rgba(self.cells[b \div 4].state)[(b % 4) + 1]
                        ELSE buf[b]],
         outcome |-> IF chunks > len(self.cells) THEN "panic" ELSE "ok"]

\* ----------------------------------------------------------------- history
NoPosition == [x |-> 0, y |-> 0]

Call(op, index, state, width, height) ==
    [op |-> op, index |-> index, state |-> state, width |-> width, height |-> height]

NoStep == [op |-> "none", from |-> NoPosition]

NoConv == [op |-> "none", index |-> 0, width |-> 0, height |-> 0,
           position |-> NoPosition, out_index |-> 0, out_position |-> NoPosition]

NoSched == [running |-> FALSE, redraw_requested |-> FALSE, updates |-> 0, drawn |-> FALSE]

NoEvent == [ev |-> "none"]

\* Nothing converted, nothing drawn, no event loop.
ExtraInit ==
    /\ neighbours = << >>
    /\ conv = NoConv
    /\ frame = << >>
    /\ outcome = "none"
    /\ sched = NoSched
    /\ event = NoEvent

\* ---------------------------------------------------- specification Spec
\* The public calls on a World, each one whole: World::new, set_cell_state,
\* update, and the caller's write of the public field paused.
Dims == {d \in (0 .. MaxCells) \X (0 .. MaxCells) : d[1] * d[2] <= MaxCells}

Init ==
    \E d \in Dims :
        /\ world = new(d[1], d[2])
        /\ prev = new(d[1], d[2])
        /\ last = Call("new", 0, "DEAD", d[1], d[2])
        /\ pc = "idle"
        /\ new_state = << >>
        /\ cursor = NoPosition
        /\ step = NoStep
    /\ ExtraInit
        /\ ExtraInit

Reset ==
    /\ prev' = world
    /\ world' = new(world.width, world.height)
    /\ last' = Call("new", 0, "DEAD", world.width, world.height)
    /\ UNCHANGED <<pc, new_state, cursor, step>>
    /\ UNCHANGED extra

SetCellState(index, state) ==
    /\ prev' = world
    /\ world' = set_cell_state(world, index, state)
    /\ last' = Call("set_cell_state", index, state, 0, 0)
    /\ UNCHANGED <<pc, new_state, cursor, step>>
    /\ UNCHANGED extra

TogglePause ==
    /\ prev' = world
    /\ world' = [world EXCEPT !.paused = ~world.paused]
    /\ last' = Call("toggle_pause", 0, "DEAD", 0, 0)
    /\ UNCHANGED <<pc, new_state, cursor, step>>
    /\ UNCHANGED extra

Update ==
    /\ prev' = world
    /\ world' = update(world)
    /\ last' = Call("update", 0, "DEAD", 0, 0)
    /\ UNCHANGED <<pc, new_state, cursor, step>>
    /\ UNCHANGED extra

Next ==
    \/ Reset
    \/ \E index \in 0 .. (MaxCells + 1), state \in CellState : SetCellState(index, state)
    \/ TogglePause
    \/ Update

Spec == Init /\ [][Next]_vars

\* ------------------------------------------------- specification SpecPar
\* World::update in steps: the call begins, rayon's workers apply the closure
\* to the cells one at a time in any order, and collect() ends the call by
\* storing the new Vec<Cell>. update holds &mut self, so no other call runs
\* between its begin and its end.
ParDims == {d \in (0 .. MaxParCells) \X (0 .. MaxParCells) : d[1] * d[2] <= MaxParCells}

InitPar ==
    \E d \in ParDims :
        /\ world = new(d[1], d[2])
        /\ prev = new(d[1], d[2])
        /\ last = Call("new", 0, "DEAD", d[1], d[2])
        /\ pc = "idle"
        /\ new_state = << >>
        /\ cursor = NoPosition
        /\ step = NoStep
        /\ ExtraInit

\* if self.paused { return; } and otherwise the start of par_iter().map()
ParBegin ==
    /\ pc = "idle"
    /\ prev' = world
    /\ last' = Call("update", 0, "DEAD", 0, 0)
    /\ pc' = IF world.paused THEN "idle" ELSE "map"
    /\ new_state' = << >>
    /\ UNCHANGED <<world, cursor, step>>
    /\ UNCHANGED extra

\* ParMap writing the result into the cell array being scanned as well.
ParMap_inPlace(i) ==
    /\ pc = "map"
    /\ i \notin DOMAIN new_state
    /\ new_state' = [j \in DOMAIN new_state \cup {i} |->
                        IF j = i THEN update_cell(world, world.cells[i]) ELSE new_state[j]]
    /\ world' = [world EXCEPT !.cells[i] = update_cell(world, world.cells[i])]
    /\ UNCHANGED <<prev, last, pc, cursor, step>>
    /\ UNCHANGED extra

\* One worker applies the closure to cell i; the result goes to the new Vec.
ParMap(i) ==
    /\ pc = "map"
    /\ i \notin DOMAIN new_state
    /\ new_state' = [j \in DOMAIN new_state \cup {i} |->
                        IF j = i THEN update_cell(world, world.cells[i]) ELSE new_state[j]]
    /\ UNCHANGED <<world, prev, last, pc, cursor, step>>
    /\ UNCHANGED extra

\* collect() has every cell; self.cells = new_state
ParCollect ==
    /\ pc = "map"
    /\ DOMAIN new_state = DOMAIN world.cells
    /\ world' = [world EXCEPT !.cells = new_state]
    /\ pc' = "idle"
    /\ new_state' = << >>
    /\ UNCHANGED <<prev, last, cursor, step>>
    /\ UNCHANGED extra

NextPar ==
    \/ pc = "idle" /\ Reset
    \/ pc = "idle" /\ \E index \in 0 .. (MaxParCells + 1), state \in CellState :
                          SetCellState(index, state)
    \/ pc = "idle" /\ TogglePause
    \/ ParBegin
    \/ \E i \in DOMAIN world.cells : ParMap(i)
    \/ ParCollect

SpecPar == InitPar /\ [][NextPar]_vars

\* --------------------------------------------- specification SpecBlinker
\* A 5 x 5 world on which the caller draws the three cells of row
\* y = 2, x = 1..3 (indices 11, 12, 13), toggles paused, resets and updates.
BlinkerIndexes == {to_index([x |-> x, y |-> 2], 5) : x \in 1 .. 3}

InitBlinker ==
    /\ world = new(5, 5)
    /\ prev = new(5, 5)
    /\ last = Call("new", 0, "DEAD", 5, 5)
    /\ pc = "idle"
    /\ new_state = << >>
    /\ cursor = NoPosition
    /\ step = NoStep
    /\ ExtraInit

NextBlinker ==
    \/ Reset
    \/ \E index \in BlinkerIndexes : SetCellState(index, "ALIVE")
    \/ TogglePause
    \/ Update

SpecBlinker == InitBlinker /\ [][NextBlinker]_vars

\* ------------------------------------------------- specification SpecPos
\* The Position of a cell of a constructed world, stepped left, right, up and
\* down with the world's width and height, as neighbours_indexes steps it.
InitPos ==
    \E width \in 1 .. MaxSide, height \in 1 .. MaxSide :
        \E i \in DOMAIN new(width, height).cells :
            /\ world = new(width, height)
            /\ prev = new(width, height)
            /\ last = Call("new", 0, "DEAD", width, height)
            /\ pc = "idle"
            /\ new_state = << >>
            /\ cursor = world.cells[i].position
            /\ step = [op |-> "from_index", from |-> NoPosition]
            /\ ExtraInit

Step(op, to) ==
    /\ step' = [op |-> op, from |-> cursor]
    /\ cursor' = to
    /\ UNCHANGED <<world, prev, last, pc, new_state>>
    /\ UNCHANGED extra

StepLeft == Step("left", left(cursor, world.width))

StepRight == Step("right", right(cursor, world.width))

StepTop == Step("top", top(cursor, world.height))

StepBottom == Step("bottom", bottom(cursor, world.height))

\* self.neighbours_indexes(i) on the constructed world, for a cell i.
Neighbours(i) ==
    /\ neighbours' = neighbours_indexes(world, i)
    /\ last' = Call("neighbours_indexes", i, "DEAD", 0, 0)
    /\ step' = [op |-> "neighbours_indexes", from |-> world.cells[i].position]
    /\ cursor' = world.cells[i].position
    /\ UNCHANGED <<world, prev, pc, new_state, conv, frame, outcome, sched, event>>

NextPos ==
    \/ StepLeft
    \/ StepRight
    \/ StepTop
    \/ StepBottom
    \/ \E i \in DOMAIN world.cells : Neighbours(i)

SpecPos == InitPos /\ [][NextPos]_vars

\* ------------------------------------------------ specification SpecDraw
\* A world with cells on which the caller sets cells and draws into a zeroed
\* buffer of any length up to one pixel more than the world's. The buffer is
\* lent to draw for the call: frame holds it until the next call on the
\* world. A panic of draw ends the program.
DrawDims == {d \in (1 .. MaxDrawCells) \X (1 .. MaxDrawCells) : d[1] * d[2] <= MaxDrawCells}

\* A frame buffer of n bytes, all 0.
ZeroedBuffer(n) == [b \in 0 .. (n - 1) |-> 0]

InitDraw ==
    \E d \in DrawDims :
        /\ world = new(d[1], d[2])
        /\ prev = new(d[1], d[2])
        /\ last = Call("new", 0, "DEAD", d[1], d[2])
        /\ pc = "idle"
        /\ new_state = << >>
        /\ cursor = NoPosition
        /\ step = NoStep
        /\ ExtraInit

\* world.draw(buffer) with a buffer of n bytes; last.index records n.
Draw(n) ==
    /\ prev' = world
    /\ last' = Call("draw", n, "DEAD", 0, 0)
    /\ frame' = draw(world, ZeroedBuffer(n)).frame
    /\ outcome' = draw(world, ZeroedBuffer(n)).outcome
    /\ UNCHANGED <<world, pc, new_state, cursor, step, neighbours, conv, sched, event>>

\* world.set_cell_state(index, state) between two draws.
DrawSetCellState(index, state) ==
    /\ prev' = world
    /\ world' = set_cell_state(world, index, state)
    /\ last' = Call("set_cell_state", index, state, 0, 0)
    /\ frame' = << >>
    /\ outcome' = "none"
    /\ UNCHANGED <<pc, new_state, cursor, step, neighbours, conv, sched, event>>

NextDraw ==
    \/ outcome # "panic" /\ \E index \in 0 .. MaxDrawCells, state \in CellState :
                                DrawSetCellState(index, state)
    \/ outcome # "panic" /\ \E n \in 0 .. (4 * MaxDrawCells + 4) : Draw(n)

SpecDraw == InitDraw /\ [][NextDraw]_vars

\* ------------------------------------------------ specification SpecConv
\* Position::from_index and Position::to_index chained both ways, with the
\* width of a constructed world, on indices within and past the world and on
\* positions within and past its columns and rows.
InitConv ==
    \E width \in 1 .. MaxSide, height \in 1 .. MaxSide :
        /\ world = new(width, height)
        /\ prev = new(width, height)
        /\ last = Call("new", 0, "DEAD", width, height)
        /\ pc = "idle"
        /\ new_state = << >>
        /\ cursor = NoPosition
        /\ step = NoStep
        /\ ExtraInit

\* Position::from_index(index, width).to_index(width)
IndexRoundTrip(index) ==
    /\ conv' = [op           |-> "from_index.to_index",
                index        |-> index,
                width        |-> world.width,
                height       |-> world.height,
                position     |-> NoPosition,
                out_position |-> from_index(index, world.width),
                out_index    |-> to_index(from_index(index, world.width), world.width)]
    /\ UNCHANGED <<world, prev, last, pc, new_state, cursor, step,
                   neighbours, frame, outcome, sched, event>>

\* Position::from_index(Position { x, y }.to_index(width), width)
PositionRoundTrip(x, y) ==
    /\ conv' = [op           |-> "to_index.from_index",
                index        |-> 0,
                width        |-> world.width,
                height       |-> world.height,
                position     |-> [x |-> x, y |-> y],
                out_index    |-> to_index([x |-> x, y |-> y], world.width),
                out_position |-> from_index(to_index([x |-> x, y |-> y], world.width),
                                            world.width)]
    /\ UNCHANGED <<world, prev, last, pc, new_state, cursor, step,
                   neighbours, frame, outcome, sched, event>>

NextConv ==
    \/ \E index \in 0 .. (MaxSide * MaxSide + MaxSide) : IndexRoundTrip(index)
    \/ \E x \in 0 .. (MaxSide + 1), y \in 0 .. (MaxSide + 1) : PositionRoundTrip(x, y)

SpecConv == InitConv /\ [][NextConv]_vars

\* ------------------------------------------------ specification SpecLoop
\* The closure of event_loop.run, one action per event it acts on. winit
\* delivers, in every iteration of the loop, the window's input events
\* (WinitInputHelper gathers them), then MainEventsCleared, for which
\* input.update returns true, then RedrawRequested if the window was asked
\* to redraw, by window.request_redraw or by the system; a redraw asked
\* for is delivered before the next MainEventsCleared.
WIDTH == LoopWidth

\* A single row stands for main's rows: the loop's claims are about the order
\* of the calls, and the rule itself is checked on taller worlds under Spec.
HEIGHT == 1

\* get_mouse_index: the index of the pixel under the mouse, None when the
\* mouse is outside the pixel buffer.
get_mouse_index(mouse, width) ==
    IF mouse.inside THEN Some(to_index([x |-> mouse.x, y |-> mouse.y], width)) ELSE None

\* The mouse positions: outside the buffer, or on one of its pixels.
MousePositions ==
    {[inside |-> FALSE, x |-> 0, y |-> 0]}
        \cup {[inside |-> TRUE, x |-> x, y |-> y] : x \in 0 .. (WIDTH - 1), y \in 0 .. (HEIGHT - 1)}

Inputs ==
    [space : BOOLEAN, e : BOOLEAN, held0 : BOOLEAN, held1 : BOOLEAN, held2 : BOOLEAN,
     mouse : MousePositions]

\* if input.mouse_held(button) { if let Some(index) = get_mouse_index(..) { set_cell_state } }
mouse_held(self, held, mouse, state) ==
    LET index == get_mouse_index(mouse, WIDTH)
    IN  IF held /\ index.is_some THEN set_cell_state(self, index.value, state) ELSE self

\* The input step without window.request_redraw().
on_input_step_noRedrawRequest(self, in) ==
    LET toggled  == IF in.space THEN [self EXCEPT !.paused = ~self.paused] ELSE self
        reset    == IF in.e THEN new(WIDTH, HEIGHT) ELSE toggled
        alive    == mouse_held(reset, in.held0, in.mouse, "ALIVE")
        dead     == mouse_held(alive, in.held1, in.mouse, "DEAD")
        immutable == mouse_held(dead, in.held2, in.mouse, "IMMUTABLE")
    IN  [after_keys |-> reset, before_update |-> immutable, world |-> update(immutable),
         request_redraw |-> FALSE]

\* The body of `if input.update(&event)` when neither Escape nor quit ends the
\* loop: Space, E, the three mouse buttons, world.update(), request_redraw().
\* after_keys and before_update are the world after the E key and before
\* world.update().
on_input_step(self, in) ==
    LET toggled  == IF in.space THEN [self EXCEPT !.paused = ~self.paused] ELSE self
        reset    == IF in.e THEN new(WIDTH, HEIGHT) ELSE toggled
        alive    == mouse_held(reset, in.held0, in.mouse, "ALIVE")
        dead     == mouse_held(alive, in.held1, in.mouse, "DEAD")
        immutable == mouse_held(dead, in.held2, in.mouse, "IMMUTABLE")
    IN  [after_keys |-> reset, before_update |-> immutable, world |-> update(immutable),
         request_redraw |-> TRUE]

InitLoop ==
    /\ world = new(WIDTH, HEIGHT)
    /\ prev = new(WIDTH, HEIGHT)
    /\ last = Call("new", 0, "DEAD", WIDTH, HEIGHT)
    /\ pc = "idle"
    /\ new_state = << >>
    /\ cursor = NoPosition
    /\ step = NoStep
    /\ neighbours = << >>
    /\ conv = NoConv
    /\ frame = ZeroedBuffer(WIDTH * HEIGHT * 4)
    /\ outcome = "none"
    /\ sched = [running |-> TRUE, redraw_requested |-> FALSE, updates |-> 0, drawn |-> FALSE]
    /\ event = NoEvent

\* MainEventsCleared with Escape pressed or the window closed: ControlFlow::Exit.
Quit ==
    /\ sched.running /\ ~sched.redraw_requested
    /\ prev' = world
    /\ sched' = [sched EXCEPT !.running = FALSE]
    /\ event' = [ev |-> "Exit"]
    /\ UNCHANGED <<world, last, pc, new_state, cursor, step, neighbours, conv, frame, outcome>>

\* MainEventsCleared: the input step. os_redraw: the system asks for a
\* redraw of the window in this iteration as well.
MainEventsCleared(in, os_redraw) ==
    /\ sched.running /\ ~sched.redraw_requested
    /\ prev' = world
    /\ world' = on_input_step(world, in).world
    /\ sched' = [sched EXCEPT
                    !.redraw_requested = on_input_step(world, in).request_redraw \/ os_redraw,
                    !.updates = IF @ < MaxUpdatesCounted THEN @ + 1 ELSE @]
    /\ event' = [ev            |-> "MainEventsCleared",
                 in            |-> in,
                 after_keys    |-> on_input_step(world, in).after_keys,
                 before_update |-> on_input_step(world, in).before_update]
    /\ UNCHANGED <<last, pc, new_state, cursor, step, neighbours, conv, frame, outcome>>

\* RedrawRequested: world.draw(pixels.get_frame()) and pixels.render();
\* the loop exits when render fails. The event records how many updates
\* ran since the draw before, and whether there was one.
RedrawRequested(render_ok) ==
    /\ sched.running /\ sched.redraw_requested
    /\ prev' = world
    /\ frame' = draw(world, frame).frame
    /\ outcome' = draw(world, frame).outcome
    /\ sched' = [running |-> render_ok, redraw_requested |-> FALSE, updates |-> 0,
                 drawn |-> TRUE]
    /\ event' = [ev |-> "RedrawRequested", updates |-> sched.updates, had_drawn |-> sched.drawn]
    /\ UNCHANGED <<world, last, pc, new_state, cursor, step, neighbours, conv>>

NextLoop ==
    \/ Quit
    \/ \E in \in Inputs, os_redraw \in BOOLEAN : MainEventsCleared(in, os_redraw)
    \/ \E render_ok \in BOOLEAN : RedrawRequested(render_ok)

SpecLoop == InitLoop /\ [][NextLoop]_vars

\* ------------------------------------------------------ claims under Spec
\* The number of the 8 neighbour indices of cell i (repeats counted) whose
\* state in `self` is ALIVE.
AliveAround(self, i) ==
    LET nbrs == neighbours_indexes(self, i)
        hit(k) == IF self.cells[nbrs[k]].state = "ALIVE" THEN 1 ELSE 0
    IN  hit(1) + hit(2) + hit(3) + hit(4) + hit(5) + hit(6) + hit(7) + hit(8)

Mutable(self) == {i \in DOMAIN self.cells : self.cells[i].state \in {"ALIVE", "DEAD"}}

\* C1: after update on an unpaused world, every cell that was ALIVE or DEAD
\* keeps its state if 2 of its 8 neighbour indices were ALIVE, is ALIVE if 3
\* were, and is DEAD for every other count (0, 1, 4..8).
C1_TransitionRule ==
    (last.op = "update" /\ ~prev.paused) =>
        /\ DOMAIN world.cells = DOMAIN prev.cells
        /\ \A i \in Mutable(prev) :
               LET n == AliveAround(prev, i)
               IN  /\ n = 2 => world.cells[i].state = prev.cells[i].state
                   /\ n = 3 => world.cells[i].state = "ALIVE"
                   /\ n \in {0, 1, 4, 5, 6, 7, 8} => world.cells[i].state = "DEAD"

\* An update gave birth to a DEAD cell with 3 alive neighbours, kept an ALIVE
\* cell with 2 and killed an ALIVE cell with another count.
C1_Witness ==
    /\ last.op = "update" /\ ~prev.paused
    /\ \E i \in Mutable(prev) :
           /\ prev.cells[i].state = "DEAD" /\ AliveAround(prev, i) = 3
           /\ world.cells[i].state = "ALIVE"
    /\ \E i \in Mutable(prev) :
           /\ prev.cells[i].state = "ALIVE" /\ AliveAround(prev, i) = 2
           /\ world.cells[i].state = "ALIVE"
    /\ \E i \in Mutable(prev) :
           /\ prev.cells[i].state = "ALIVE" /\ AliveAround(prev, i) \notin {2, 3}
           /\ world.cells[i].state = "DEAD"

\* C3: update on a paused world leaves the world identical: every cell, the
\* length of the cell array, width, height and the paused flag.
C3_PausedUpdateIsNoop ==
    (last.op = "update" /\ prev.paused) =>
        /\ world.cells = prev.cells
        /\ len(world.cells) = len(prev.cells)
        /\ world.width = prev.width
        /\ world.height = prev.height
        /\ world.paused = prev.paused

\* update was called on a paused world holding an ALIVE cell that the rule
\* would have killed.
C3_Witness ==
    /\ last.op = "update" /\ prev.paused
    /\ \E i \in Mutable(prev) :
           /\ prev.cells[i].state = "ALIVE"
           /\ AliveAround(prev, i) \notin {2, 3}
           /\ world.cells[i].state = "ALIVE"

\* C4: an IMMUTABLE cell is still IMMUTABLE after update, paused or not,
\* whatever the states of its neighbours.
C4_ImmutableStays ==
    last.op = "update" =>
        \A i \in DOMAIN prev.cells :
            prev.cells[i].state = "IMMUTABLE" =>
                i \in DOMAIN world.cells /\ world.cells[i].state = "IMMUTABLE"

\* An unpaused update left an IMMUTABLE cell alone although 3 of its
\* neighbours were ALIVE.
C4_Witness ==
    /\ last.op = "update" /\ ~prev.paused
    /\ \E i \in DOMAIN prev.cells :
           /\ prev.cells[i].state = "IMMUTABLE"
           /\ AliveAround(prev, i) = 3
           /\ world.cells[i].state = "IMMUTABLE"

\* C6: World::new(width, height) with width >= 1 and height >= 1 yields
\* exactly width*height cells, at the indices 0 .. width*height-1, all DEAD.
C6_NewAllDead ==
    (last.op = "new" /\ last.width >= 1 /\ last.height >= 1) =>
        /\ len(world.cells) = last.width * last.height
        /\ DOMAIN world.cells = 0 .. (last.width * last.height - 1)
        /\ \A i \in DOMAIN world.cells : world.cells[i].state = "DEAD"

\* A world of 2 x 3 with cells that were not DEAD was constructed anew.
C6_Witness ==
    /\ last.op = "new" /\ last.width = 2 /\ last.height = 3
    /\ \E i \in DOMAIN prev.cells : prev.cells[i].state = "ALIVE"
    /\ \E i \in DOMAIN prev.cells : prev.cells[i].state = "IMMUTABLE"
    /\ len(world.cells) = 6

\* C7: World::new(0, h) and World::new(w, 0) fail: no world with
\* width*height = 0 is ever constructed.
C7_NoEmptyWorld ==
    last.op = "new" => (last.width # 0 /\ last.height # 0 /\ world.width * world.height # 0)

\* C8: set_cell_state with index >= width*height leaves every cell and the
\* paused flag (the whole world) unchanged.
C8_OutOfRangeIsNoop ==
    (last.op = "set_cell_state" /\ last.index >= prev.width * prev.height) =>
        world = prev

\* set_cell_state(width*height, ALIVE) was called on a world of 4 cells or
\* more whose last cell is DEAD.
C8_Witness ==
    /\ last.op = "set_cell_state" /\ last.state = "ALIVE"
    /\ last.index = prev.width * prev.height
    /\ len(prev.cells) >= 4
    /\ prev.cells[last.index - 1].state = "DEAD"
    /\ world.cells[last.index - 1].state = "DEAD"

\* C9: set_cell_state with index < width*height sets that cell's state,
\* paused or not, and changes nothing else: no other cell, no index, no
\* position, not width, height or paused.
C9_SetsExactlyOneCell ==
    (last.op = "set_cell_state" /\ last.index < prev.width * prev.height) =>
        /\ DOMAIN world.cells = DOMAIN prev.cells
        /\ world.cells[last.index].state = last.state
        /\ world.cells[last.index].index = prev.cells[last.index].index
        /\ world.cells[last.index].position = prev.cells[last.index].position
        /\ \A j \in DOMAIN prev.cells : j # last.index => world.cells[j] = prev.cells[j]
        /\ world.width = prev.width
        /\ world.height = prev.height
        /\ world.paused = prev.paused

\* set_cell_state changed the state of a cell of an unpaused world that has
\* other cells, not all DEAD.
C9_Witness ==
    /\ last.op = "set_cell_state" /\ last.index < prev.width * prev.height
    /\ ~prev.paused
    /\ prev.cells[last.index].state # last.state
    /\ world.cells[last.index].state = last.state
    /\ \E j \in DOMAIN prev.cells : j # last.index /\ prev.cells[j].state # "DEAD"

\* C12: after any sequence of calls the cell array has exactly width*height
\* entries, cells[i].index = i, and cells[i].position = (i mod width, i div width).
C12_IndexAndPositionKept ==
    /\ len(world.cells) = world.width * world.height
    /\ DOMAIN world.cells = 0 .. (world.width * world.height - 1)
    /\ \A i \in DOMAIN world.cells :
           /\ world.cells[i].index = i
           /\ world.cells[i].position = [x |-> i % world.width, y |-> i \div world.width]

\* An unpaused update has changed a world of 3 columns and 2 rows that also
\* holds a cell set to IMMUTABLE.
C12_Witness ==
    /\ last.op = "update" /\ ~prev.paused
    /\ world.width = 3 /\ world.height = 2
    /\ world.cells # prev.cells
    /\ \E i \in DOMAIN world.cells : world.cells[i].state = "IMMUTABLE"
    /\ \E i \in DOMAIN world.cells : world.cells[i].state = "ALIVE"

\* C17: update never creates or removes an IMMUTABLE cell: the set of the
\* indices whose state is IMMUTABLE is the same before and after it; only
\* set_cell_state and the construction of a new World change that set.
C17_ImmutableSetKept ==
    last.op \notin {"set_cell_state", "new"} =>
        {i \in DOMAIN world.cells : world.cells[i].state = "IMMUTABLE"}
            = {i \in DOMAIN prev.cells : prev.cells[i].state = "IMMUTABLE"}

\* An unpaused update has changed the world around an IMMUTABLE cell: a cell
\* was born, a cell died, and the IMMUTABLE cells are where they were.
C17_Witness ==
    /\ last.op = "update" /\ ~prev.paused
    /\ \E i \in DOMAIN prev.cells : prev.cells[i].state = "IMMUTABLE"
    /\ \E i \in DOMAIN prev.cells :
           prev.cells[i].state = "DEAD" /\ world.cells[i].state = "ALIVE"
    /\ \E i \in DOMAIN prev.cells :
           prev.cells[i].state = "ALIVE" /\ world.cells[i].state = "DEAD"

\* ---------------------------------------------------- claims under SpecPar
\* The next Cell of index i by the rule, read from the cell array of `snapshot`.
NextFrom(snapshot, i) ==
    LET cell == snapshot.cells[i]
        n == AliveAround(snapshot, i)
    IN  IF cell.state = "IMMUTABLE" THEN cell
        ELSE [cell EXCEPT !.state = IF n = 2 THEN cell.state
                                     ELSE IF n = 3 THEN "ALIVE" ELSE "DEAD"]

\* C2: while the workers run, the cell array is the previous generation's,
\* untouched, and every cell computed so far is what the rule gives on the
\* previous generation alone; so, whatever the order, the update ends with
\* the one generation the previous one determines, stored in a single step
\* once every cell is computed.
C2_ReadsPreviousGenerationOnly ==
    /\ pc = "map" =>
           /\ world = prev
           /\ DOMAIN new_state \subseteq DOMAIN prev.cells
           /\ \A i \in DOMAIN new_state : new_state[i] = NextFrom(prev, i)
    /\ (pc = "idle" /\ last.op = "update" /\ ~prev.paused) =>
           world = [prev EXCEPT !.cells = [i \in DOMAIN prev.cells |-> NextFrom(prev, i)]]

\* Mid-update on a 2 x 2 world: a worker has computed a new state for cell i that differs from
\* its old one, while a cell j that has i among its neighbours, and whose own
\* state the update changes, is still to be computed.
C2_Witness ==
    /\ pc = "map"
    /\ world.width = 2 /\ world.height = 2
    /\ \E i \in DOMAIN new_state, j \in DOMAIN world.cells \ DOMAIN new_state :
           /\ new_state[i].state # world.cells[i].state
           /\ \E k \in 1 .. 8 : neighbours_indexes(world, j)[k] = i
           /\ NextFrom(world, j).state # world.cells[j].state

\* ------------------------------------------------ claims under SpecBlinker
\* The cells of `self` at the positions of `alive` are ALIVE, all others DEAD.
ExactlyAlive(self, alive) ==
    \A i \in DOMAIN self.cells :
        self.cells[i].state = IF self.cells[i].position \in alive THEN "ALIVE" ELSE "DEAD"

Horizontal == {[x |-> x, y |-> 2] : x \in 1 .. 3}

Vertical == {[x |-> 2, y |-> y] : y \in 1 .. 3}

\* C5: on an unpaused 5 x 5 world whose only ALIVE cells are (x = 1..3, y = 2),
\* all others DEAD, update yields exactly the ALIVE cells (x = 2, y = 1..3);
\* update on that world yields the horizontal row again.
C5_BlinkerOscillates ==
    (last.op = "update" /\ ~prev.paused /\ prev.width = 5 /\ prev.height = 5) =>
        /\ ExactlyAlive(prev, Horizontal) => ExactlyAlive(world, Vertical)
        /\ ExactlyAlive(prev, Vertical) => ExactlyAlive(world, Horizontal)

\* The second update of the oscillation has acted: the world was the vertical
\* column, which only an update of the horizontal row produces here, and is
\* the horizontal row again.
C5_Witness ==
    /\ last.op = "update" /\ ~prev.paused
    /\ ExactlyAlive(prev, Vertical)
    /\ ExactlyAlive(world, Horizontal)

\* ---------------------------------------------------- claims under SpecPos
\* C10: left from x = 0 yields x = W-1 and otherwise x-1; right from x = W-1
\* yields 0 and otherwise x+1; top from y = 0 yields H-1 and otherwise y-1;
\* bottom from y = H-1 yields 0 and otherwise y+1; the other coordinate is
\* unchanged. So the left-neighbour index of cell (0, y) is the index of
\* (W-1, y) and the right-neighbour index of (W-1, y) is the index of (0, y).
C10_ToroidalStepping ==
    LET W == world.width
        H == world.height
        p == step.from
        here == to_index(p, W)
    IN  /\ step.op = "left" =>
               /\ cursor = [x |-> IF p.x = 0 THEN W - 1 ELSE p.x - 1, y |-> p.y]
               /\ p.x = 0 => neighbours_indexes(world, here)[4] = p.y * W + (W - 1)
        /\ step.op = "right" =>
               /\ cursor = [x |-> IF p.x = W - 1 THEN 0 ELSE p.x + 1, y |-> p.y]
               /\ p.x = W - 1 => neighbours_indexes(world, here)[5] = p.y * W
        /\ step.op = "top" =>
               cursor = [x |-> p.x, y |-> IF p.y = 0 THEN H - 1 ELSE p.y - 1]
        /\ step.op = "bottom" =>
               cursor = [x |-> p.x, y |-> IF p.y = H - 1 THEN 0 ELSE p.y + 1]

\* A step right from the last column of a world 3 wide or wider, in a row
\* other than the first, has wrapped to column 0.
C10_Witness ==
    /\ step.op = "right"
    /\ world.width >= 3
    /\ step.from.x = world.width - 1
    /\ step.from.y >= 1
    /\ cursor = [x |-> 0, y |-> step.from.y]

\* C11: all 8 indices neighbours_indexes(i) returns lie in [0, width*height),
\* for every cell i of every constructed world: the reads self.cells[index]
\* of update are in bounds.
C11_NeighboursInRange ==
    step.op = "neighbours_indexes" =>
        /\ DOMAIN neighbours = 1 .. 8
        /\ \A k \in 1 .. 8 :
               /\ 0 <= neighbours[k]
               /\ neighbours[k] < world.width * world.height
               /\ neighbours[k] \in DOMAIN world.cells

\* The neighbours of the last cell of a world of 3 columns or more and 3 rows
\* or more were computed: its SE neighbour wraps to cell 0, its W neighbour
\* is the cell before it.
C11_Witness ==
    /\ step.op = "neighbours_indexes"
    /\ world.width >= 3 /\ world.height >= 3
    /\ last.index = world.width * world.height - 1
    /\ neighbours[8] = 0
    /\ neighbours[4] = last.index - 1

\* C15: for the cell at (x, y), neighbours_indexes returns, in the order NW,
\* N, NE, W, E, SW, S, SE, the row-major indices of the positions
\* ((x +- 1) mod W, (y +- 1) mod H).
C15_NeighbourOrder ==
    step.op = "neighbours_indexes" =>
        LET W == world.width
            H == world.height
            x == step.from.x
            y == step.from.y
            at(dx, dy) == ((y + dy) % H) * W + ((x + dx) % W)
        IN  neighbours = << at(-1, -1), at(0, -1), at(1, -1),
                            at(-1, 0),             at(1, 0),
                            at(-1, 1),  at(0, 1),  at(1, 1) >>

\* The neighbours of the cell (0, 0) of a world of 4 columns and 3 rows were
\* computed: every step to the west or to the north wraps.
C15_Witness ==
    /\ step.op = "neighbours_indexes"
    /\ world.width = 4 /\ world.height = 3
    /\ step.from = [x |-> 0, y |-> 0]
    /\ neighbours = <<11, 8, 9, 3, 1, 7, 4, 5>>

\* C19: on a world with width >= 3 and height >= 3 the 8 indices
\* neighbours_indexes(i) returns are pairwise distinct and none is i.
C19_NeighboursDistinct ==
    (step.op = "neighbours_indexes" /\ world.width >= 3 /\ world.height >= 3) =>
        /\ \A k, l \in 1 .. 8 : k # l => neighbours[k] # neighbours[l]
        /\ \A k \in 1 .. 8 : neighbours[k] # last.index
        /\ Cardinality({neighbours[k] : k \in 1 .. 8} \cup {last.index}) = 9

\* The neighbours of the centre cell of a 3 x 3 world were computed: they are
\* the 8 other cells.
C19_Witness ==
    /\ step.op = "neighbours_indexes"
    /\ world.width = 3 /\ world.height = 3
    /\ last.index = 4
    /\ {neighbours[k] : k \in 1 .. 8} = (0 .. 8) \ {4}

\* --------------------------------------------------- claims under SpecDraw
\* C13: draw with a buffer whose length is not width*height*4 fails with
\* BufferSizeMismatch and writes no byte of the buffer.
C13_WrongLengthRejected ==
    (last.op = "draw" /\ last.index # world.width * world.height * 4) =>
        /\ outcome = "BufferSizeMismatch"
        /\ frame = ZeroedBuffer(last.index)

\* C14: draw with a buffer of exactly width*height*4 bytes writes, for every
\* cell i, the bytes 4i..4i+3 as FF 00 4D FF if the cell is IMMUTABLE,
\* 1E 1E 1E FF if ALIVE and F8 F8 F8 F8 if DEAD, and leaves the world as it was.
C14_RenderMapping ==
    (last.op = "draw" /\ last.index = world.width * world.height * 4) =>
        /\ outcome = "ok"
        /\ world = prev
        /\ DOMAIN frame = 0 .. (4 * world.width * world.height - 1)
        /\ \A i \in DOMAIN world.cells :
               <<frame[4 * i], frame[4 * i + 1], frame[4 * i + 2], frame[4 * i + 3]>>
                   = CASE world.cells[i].state = "IMMUTABLE" -> <<255, 0, 77, 255>>
                       [] world.cells[i].state = "ALIVE"     -> <<30, 30, 30, 255>>
                       [] world.cells[i].state = "DEAD"      -> <<248, 248, 248, 248>>

\* A world of 3 cells, one IMMUTABLE, one ALIVE and one DEAD, was drawn into
\* a buffer of 12 bytes.
C14_Witness ==
    /\ last.op = "draw" /\ last.index = 12
    /\ len(world.cells) = 3
    /\ world.cells[0].state = "IMMUTABLE"
    /\ world.cells[1].state = "ALIVE"
    /\ world.cells[2].state = "DEAD"
    /\ frame = (0 :> 255 @@ 1 :> 0 @@ 2 :> 77 @@ 3 :> 255 @@
                4 :> 30 @@ 5 :> 30 @@ 6 :> 30 @@ 7 :> 255 @@
                8 :> 248 @@ 9 :> 248 @@ 10 :> 248 @@ 11 :> 248)

\* --------------------------------------------------- claims under SpecConv
\* C20: from_index(i, width).to_index(width) = i for every width >= 1 and
\* every index i, and for i < width*height the position has x < width and
\* y < height; from_index(Position{x, y}.to_index(width), width) = (x, y)
\* whenever x < width.
C20_IndexPositionRoundTrip ==
    /\ conv.op = "from_index.to_index" =>
           /\ conv.out_index = conv.index
           /\ conv.index < conv.width * conv.height =>
                  /\ conv.out_position.x < conv.width
                  /\ conv.out_position.y < conv.height
    /\ (conv.op = "to_index.from_index" /\ conv.position.x < conv.width) =>
           conv.out_position = conv.position

\* Index 7 of a world 3 wide and 3 high went to the position (1, 2) and back.
C20_Witness ==
    /\ conv.op = "from_index.to_index"
    /\ conv.width = 3 /\ conv.height = 3
    /\ conv.index = 7
    /\ conv.out_position = [x |-> 1, y |-> 2]
    /\ conv.out_index = 7

\* -------------------------------------------------- claims under SpecLoop
\* The world an input step hands to its update: Space flips paused, then E
\* makes the world all DEAD and paused, then the held buttons paint the cell
\* under the mouse, the later button over the earlier (IMMUTABLE over DEAD
\* over ALIVE).
InputsApplied(before, in) ==
    LET paused  == IF in.e THEN TRUE ELSE IF in.space THEN ~before.paused ELSE before.paused
        painted == in.mouse.inside /\ (in.held0 \/ in.held1 \/ in.held2)
        paint   == IF in.held2 THEN "IMMUTABLE" ELSE IF in.held1 THEN "DEAD" ELSE "ALIVE"
        kept(i) == IF in.e THEN "DEAD" ELSE before.cells[i].state
        under(i) == before.cells[i].position = [x |-> in.mouse.x, y |-> in.mouse.y]
    IN  [before EXCEPT
            !.paused = paused,
            !.cells = [i \in DOMAIN before.cells |->
                         [before.cells[i] EXCEPT
                             !.state = IF painted /\ under(i) THEN paint ELSE kept(i)]]]

\* One generation later when unpaused, the same world when paused.
Advanced(self) ==
    IF self.paused THEN self
    ELSE [self EXCEPT !.cells = [i \in DOMAIN self.cells |-> NextFrom(self, i)]]

AllDeadPaused(self) ==
    self.paused /\ \A i \in DOMAIN self.cells : self.cells[i].state = "DEAD"

\* C16: in the event loop exactly one update is performed between two
\* consecutive draws, and the update of an input step runs after the step's
\* pause toggle, reset and mouse set_cell_state calls: the world the step
\* leaves is the world before it with the inputs applied and then, when
\* unpaused, advanced by one generation.
C16_OneUpdatePerFrame ==
    /\ (event.ev = "RedrawRequested" /\ event.had_drawn) => event.updates = 1
    /\ event.ev = "MainEventsCleared" => world = Advanced(InputsApplied(prev, event.in))

C16_Witness ==
    /\ event.ev = "RedrawRequested"
    /\ event.had_drawn
    /\ event.updates = 1
    /\ ~world.paused
    /\ \E i \in DOMAIN world.cells : world.cells[i].state = "ALIVE"

\* C18: the loop's world starts all DEAD and paused; an update on a paused
\* world changes nothing; after key E the world is all DEAD and paused
\* whatever paused was before, and it is still paused when the step ends;
\* without key E, paused changes exactly when Space is pressed; a draw and
\* the exit leave paused alone.
C18_ResetPausesOnlySpaceToggles ==
    /\ event.ev = "none" => AllDeadPaused(world)
    /\ event.ev = "MainEventsCleared" =>
          /\ event.before_update.paused => world = event.before_update
          /\ event.in.e => (AllDeadPaused(event.after_keys) /\ world.paused)
          /\ ~event.in.e =>
                world.paused = (IF event.in.space THEN ~prev.paused ELSE prev.paused)
    /\ event.ev \in {"RedrawRequested", "Exit"} => world.paused = prev.paused

C18_Witness ==
    /\ event.ev = "MainEventsCleared"
    /\ event.in.e
    /\ ~prev.paused
    /\ \E i \in DOMAIN prev.cells : prev.cells[i].state # "DEAD"
    /\ AllDeadPaused(world)

====
